---- MODULE Spec2Model ----
(***************************************************************************)
(* Model of src/main.py: a cooperative (asyncio) scheduler runs main() and *)
(* one worker(repo) task per configured repository.  Every worker fetches  *)
(* the repository summary, pages through the commits, resolves each        *)
(* commit's author through the shared commiters_cache and tallies the      *)
(* authors whose profile location matches a configured substring.          *)
(*                                                                         *)
(* A task holds the loop (running) from the moment it is resumed until it  *)
(* suspends on network I/O or on the cooldown sleep; the remote side and   *)
(* the signal are the environment.                                         *)
(***************************************************************************)
EXTENDS Integers, Sequences, FiniteSets, TLC

\* ------------------------------------------------------------------ bounds
MaxRetry   == 2   \* non-200 answers the remote gives to one call
MaxPages   == 2   \* non-empty commit pages a repository has
MaxCommits == 2   \* commits on one page
MaxStr     == 2   \* characters of a profile location
MaxSub     == 1   \* characters of a configured location substring
MaxLocs    == 2   \* configured location substrings

\* ------------------------------------------------------- program constants
DEFAULT_PER_PAGE_LIMIT == 100

\* ------------------------------------------------------------ value domains
Repos    == {"r1", "r2"}
Logins   == {"alice", "bob"}
Statuses == {200, 403, 404}
Chars    == {"b", "B", "t"}

\* JSON null for a string field, and for an object field
NoneStr == <<"None">>
NoneObj == [none |-> TRUE]

SeqsUpTo(S, n) == UNION {[1..k -> S] : k \in 0..n}

\* str.lower() leaving every character as it is
LowerKeepsCase(s) == s

\* str.lower(), character by character
LowerChar(c) == IF c = "B" THEN "b" ELSE c
Lower(s) == [i \in 1..Len(s) |-> LowerChar(s[i])]

\* Python's `sub in s` on strings
Contains(sub, s) ==
    \E i \in 0..(Len(s) - Len(sub)) : SubSeq(s, i + 1, i + Len(sub)) = sub

\* ------------------------------------------------------------------- URLs
SummaryUrl(repo, token) == [path |-> <<"repos", repo>>, access_token |-> token]

CommitsUrl(repo, token, perPage, page) ==
    [path |-> <<"repos", repo, "commits">>, access_token |-> token,
     per_page |-> perPage, page |-> page]

AuthorUrl(login) == <<"users", login>>

ProfileUrl(authorUrl, token) == [path |-> authorUrl, access_token |-> token]

Kind(u) == IF u.path[1] = "users" THEN "profile"
           ELSE IF Len(u.path) = 3 THEN "commits" ELSE "summary"

\* ---------------------------------------------------------- remote payloads
Commits ==
    {[author |-> NoneObj], [author |-> [url |-> AuthorUrl("ghost")]]}
    \cup {[author |-> [login |-> l, url |-> AuthorUrl(l)]] : l \in Logins}

PageContents == SeqsUpTo(Commits, MaxCommits)

Summary(repo) == [name |-> repo, description |-> "d"]

Profile(l, loc) == [login |-> l, location |-> loc]

NoPayload == <<>>
NoResp    == [status |-> 0, body |-> NoPayload]
NoProfile == Profile("", NoneStr)
NoResult  == [none |-> TRUE]

VARIABLES
    config,           \* the loaded configuration (repos, locations, accessToken)
    api,              \* remote: the pool of page bodies it serves (pages), the
                      \* last page number that may be non-empty (depth), the
                      \* non-200 answers it may give to one call (failures)
                      \* and the repositories whose commits it never serves
                      \* with status 200 (stuck)
    profiles,         \* remote: the profile the API serves for each login
    commiters_cache,  \* shared cache login -> profile
    running,          \* the task holding the event loop, or "none"
    loop,             \* "running", "stopping" (stop() called), "stopped"
    batch,            \* tasks still to run in the loop's last iteration
    abandoned,        \* history: workers in flight when the signal was handled
    mainpc,           \* main(): "wait", "export", "done", "crashed"
    finished,         \* futures main() has still to iterate over
    exported,         \* Results handed to out_to_csv, in order
    csv,              \* rows written, per file name
    pc,               \* per worker: control point
    url,              \* per worker: url argument of load_with_retry
    resp,             \* per worker: the response object of the last attempt
    ret,              \* per worker: value returned by load_with_retry
    repo_summary, page, data, idx, retval, profile_data, commiters, result,
    sent,             \* history: requests of the current call, in order
    nfail,            \* history: non-200 answers of the remote in this call
    nerr,             \* history: logging.error events of this call
    nsleep,           \* history: cooldown sleeps completed in this call
    npages,           \* history: commit pages served with status 200
    nempty,           \* history: how many of them were empty
    seen,             \* history: commits served per login
    fetches           \* history: profile fetches started, per worker and login

cfgvars  == <<config, api, profiles>>
loopvars == <<loop, batch, abandoned>>
mainvars == <<mainpc, finished, exported, csv>>
locals   == <<repo_summary, page, data, idx, retval, profile_data, commiters, result>>
callvars == <<url, sent, nfail, nerr, nsleep>>
histvars == <<npages, nempty, seen, fetches>>
vars == <<config, api, profiles, commiters_cache, running, loop, batch, abandoned,
          mainpc, finished, exported, csv, pc, url, resp, ret, repo_summary, page,
          data, idx, retval, profile_data, commiters, result, sent, nfail,
          nerr, nsleep, npages, nempty, seen, fetches>>

Workers == config.repos

\* --------------------------------------------------------------- inputs
Strings(n) == SeqsUpTo(Chars, n)

\* configured locations and remote profile locations of the full runs:
\* <<"t", "B">> matches both configured substrings, <<"t">> and null none
LocationConfigs  == {<<>>, << <<"B">>, <<"b">> >>}
ProfileLocations == {NoneStr, <<"t", "B">>, <<"t">>}

Commit(l) == [author |-> [login |-> l, url |-> AuthorUrl(l)]]

\* one repository: any page of up to MaxCommits commits, MaxPages pages
WideApi == [pages |-> "any", depth |-> MaxPages, failures |-> MaxRetry, stuck |-> {}]

\* two repositories: pages that share a login, one page, one failure
NarrowApi == [pages |-> "shared", depth |-> 1, failures |-> 1, stuck |-> {}]

\* two repositories: the commits of r1 are answered, but never with status 200
StuckApi == [pages |-> "shared", depth |-> 1, failures |-> MaxRetry, stuck |-> {"r1"}]

PagePool(name) ==
    IF name = "any" THEN PageContents
    ELSE {<<>>, <<Commit("alice")>>, <<Commit("bob"), Commit("alice")>>}

ConfigsOver(repoSets, locLists) ==
    [repos : repoSets, locations : locLists, accessToken : {"tok"}]

\* ------------------------------------------------- filter_commiters, 51-54
\* for loc in config['locations']: if <match>: retval.append(login); break
RECURSIVE LocationMatches(_, _, _)
LocationMatches(locs, k, location) ==
    IF k > Len(locs) THEN FALSE
    ELSE IF location # NoneStr /\ Contains(Lower(locs[k]), Lower(location))
         THEN TRUE
         ELSE LocationMatches(locs, k + 1, location)

\* FilterAppend without the break of line 54: one append per matching location
RECURSIVE AppendPerMatch(_, _, _, _, _)
AppendPerMatch(acc, login, location, locs, k) ==
    IF k > Len(locs) THEN acc
    ELSE AppendPerMatch(
             IF location # NoneStr /\ Contains(Lower(locs[k]), Lower(location))
             THEN Append(acc, login) ELSE acc,
             login, location, locs, k + 1)

FilterAppendNoBreak(acc, login, profile, locs) ==
    AppendPerMatch(acc, login, profile.location, locs, 1)

FilterAppend(acc, login, profile, locs) ==
    IF LocationMatches(locs, 1, profile.location) THEN Append(acc, login) ELSE acc

\* ---------------------------------------------------------- worker, 94-95
\* collections.Counter: a missing key counts 0 and is created by +=
CounterInc(c, k) ==
    IF k \in DOMAIN c THEN [c EXCEPT ![k] = @ + 1] ELSE (k :> 1) @@ c

RECURSIVE TallyAll(_, _, _)
TallyAll(c, new, k) ==
    IF k > Len(new) THEN c ELSE TallyAll(CounterInc(c, new[k]), new, k + 1)

HasLogin(commit) == commit.author # NoneObj /\ "login" \in DOMAIN commit.author

CountLogin(body, l) ==
    Cardinality({i \in 1..Len(body) : HasLogin(body[i]) /\ body[i].author.login = l})

\* what the remote can answer with status 200 to a GET of u
Bodies(u) ==
    CASE Kind(u) = "summary" -> {Summary(u.path[2])}
      [] Kind(u) = "commits" -> IF u.path[2] \in api.stuck THEN {}
                                ELSE IF u.page > api.depth THEN {<<>>}
                                ELSE PagePool(api.pages)
      [] Kind(u) = "profile" -> {profiles[u.path[2]]}

\* ------------------------------------------------------------------ Init
InitWith(configs, apis, locs) ==
    /\ config \in configs
    /\ api \in apis
    /\ profiles \in {[l \in Logins |-> Profile(l, f[l])] : f \in [Logins -> locs]}
    /\ commiters_cache = <<>>
    /\ running = "none"
    /\ loop = "running"
    /\ batch = {}
    /\ abandoned = {}
    /\ mainpc = "wait"
    /\ finished = {}
    /\ exported = <<>>
    /\ csv = <<>>
    /\ pc = [w \in Workers |-> "start"]
    /\ url = [w \in Workers |-> SummaryUrl(w, config.accessToken)]
    /\ resp = [w \in Workers |-> NoResp]
    /\ ret = [w \in Workers |-> NoPayload]
    /\ repo_summary = [w \in Workers |-> NoPayload]
    /\ page = [w \in Workers |-> 0]
    /\ data = [w \in Workers |-> <<>>]
    /\ idx = [w \in Workers |-> 1]
    /\ retval = [w \in Workers |-> <<>>]
    /\ profile_data = [w \in Workers |-> NoProfile]
    /\ commiters = [w \in Workers |-> <<>>]
    /\ result = [w \in Workers |-> NoResult]
    /\ sent = [w \in Workers |-> <<>>]
    /\ nfail = [w \in Workers |-> 0]
    /\ nerr = [w \in Workers |-> 0]
    /\ nsleep = [w \in Workers |-> 0]
    /\ npages = [w \in Workers |-> 0]
    /\ nempty = [w \in Workers |-> 0]
    /\ seen = [w \in Workers |-> [l \in Logins |-> 0]]
    /\ fetches = [w \in Workers |-> [l \in Logins |-> 0]]

\* null, or the length of the location
Rank(location) == IF location = NoneStr THEN 0 ELSE Len(location)

\* The pages of WideApi treat the two logins alike, so of two remotes that
\* differ by swapping the profiles of alice and bob one is enough.
InitOne ==
    /\ InitWith(ConfigsOver({{"r1"}}, {<< <<"B">>, <<"b">> >>}), {WideApi},
                ProfileLocations)
    /\ Rank(profiles["bob"].location) <= Rank(profiles["alice"].location)

\* With no configured location the loop of line 51 has no iteration and the
\* location is never read: one remote is enough.
InitTwo ==
    /\ InitWith(ConfigsOver({Repos}, LocationConfigs), {NarrowApi}, ProfileLocations)
    /\ config.locations = <<>> => \A l \in Logins : profiles[l].location = NoneStr

InitStuck ==
    InitWith(ConfigsOver({Repos}, {<< <<"B">>, <<"b">> >>}), {StuckApi},
             {<<"t", "B">>, <<"t">>})

Init == InitOne \/ InitTwo \/ InitStuck

\* ------------------------------------------------------------- scheduling
\* the loop picks task t: nothing else holds the loop, and the loop is
\* running or t is among the callbacks of its last iteration
Resume(t) ==
    /\ running = "none"
    /\ \/ loop = "running"
       \/ loop = "stopping" /\ t \in batch
    /\ batch' = batch \ {t}
    /\ loop' = loop
    /\ abandoned' = abandoned

Holding(t) == running = t /\ UNCHANGED loopvars

\* ------------------------------------------------ load_with_retry, 23-36
\* entry and the first session.get(url): the task suspends on the request
Call(w, u) ==
    /\ url' = [url EXCEPT ![w] = u]
    /\ sent' = [sent EXCEPT ![w] = <<u>>]
    /\ nfail' = [nfail EXCEPT ![w] = 0]
    /\ nerr' = [nerr EXCEPT ![w] = 0]
    /\ nsleep' = [nsleep EXCEPT ![w] = 0]
    /\ resp' = [resp EXCEPT ![w] = NoResp]
    /\ ret' = [ret EXCEPT ![w] = NoPayload]
    /\ pc' = [pc EXCEPT ![w] = "get"]
    /\ running' = "none"

\* the remote answers the outstanding GET and the task is resumed
ReceiveStatus(w, st) ==
    /\ pc[w] = "get"
    /\ Resume(w)
    /\ \E body \in (IF st = 200 THEN Bodies(url[w]) ELSE {NoPayload}) :
         /\ st # 200 => nfail[w] < api.failures
         /\ resp' = [resp EXCEPT ![w] =
                        [status |-> st, body |-> IF st = 200 THEN body ELSE NoPayload]]
         /\ nfail' = [nfail EXCEPT ![w] = IF st = 200 THEN @ ELSE @ + 1]
         /\ IF st = 200 /\ Kind(url[w]) = "commits"
            THEN /\ npages' = [npages EXCEPT ![w] = @ + 1]
                 /\ nempty' = [nempty EXCEPT ![w] = IF Len(body) = 0 THEN @ + 1 ELSE @]
                 /\ seen' = [seen EXCEPT ![w] =
                                [l \in Logins |-> @[l] + CountLogin(body, l)]]
            ELSE UNCHANGED <<npages, nempty, seen>>
    /\ pc' = [pc EXCEPT ![w] = "resp"]
    /\ running' = w
    /\ UNCHANGED <<cfgvars, commiters_cache, mainvars, locals, url, sent,
                   nerr, nsleep, ret, fetches>>

Receive(w) == \E st \in Statuses : ReceiveStatus(w, st)

\* HandleResp without line 36: a non-200 answer is logged and the request
\* repeated at once, with no cooldown
HandleRespNoCooldown(w) ==
    /\ pc[w] = "resp"
    /\ Holding(w)
    /\ IF resp[w].status = 200
       THEN /\ ret' = [ret EXCEPT ![w] = resp[w].body]
            /\ pc' = [pc EXCEPT ![w] = "ret"]
            /\ UNCHANGED <<nerr, running, resp, sent>>
       ELSE /\ nerr' = [nerr EXCEPT ![w] = @ + 1]
            /\ resp' = [resp EXCEPT ![w] = NoResp]
            /\ sent' = [sent EXCEPT ![w] = Append(@, url[w])]
            /\ pc' = [pc EXCEPT ![w] = "get"]
            /\ running' = "none"
            /\ UNCHANGED ret
    /\ UNCHANGED <<cfgvars, commiters_cache, mainvars, locals, url, nfail, nsleep,
                   histvars>>

\* HandleResp with a maximum of attempts: the second non-200 answer is raised
HandleRespGivesUp(w) ==
    /\ pc[w] = "resp"
    /\ Holding(w)
    /\ IF resp[w].status = 200
       THEN /\ ret' = [ret EXCEPT ![w] = resp[w].body]
            /\ pc' = [pc EXCEPT ![w] = "ret"]
            /\ UNCHANGED <<nerr, running, resp>>
       ELSE /\ nerr' = [nerr EXCEPT ![w] = @ + 1]
            /\ resp' = [resp EXCEPT ![w] = NoResp]
            /\ pc' = [pc EXCEPT ![w] = IF nerr[w] >= 1 THEN "failed" ELSE "sleep"]
            /\ running' = "none"
            /\ UNCHANGED ret
    /\ UNCHANGED <<cfgvars, commiters_cache, mainvars, locals, url, sent,
                   nfail, nsleep, histvars>>

\* HandleResp raising on a non-200 answer, as resp.raise_for_status() would
HandleRespRaises(w) ==
    /\ pc[w] = "resp"
    /\ Holding(w)
    /\ IF resp[w].status = 200
       THEN /\ ret' = [ret EXCEPT ![w] = resp[w].body]
            /\ pc' = [pc EXCEPT ![w] = "ret"]
            /\ UNCHANGED <<nerr, running, resp>>
       ELSE /\ nerr' = [nerr EXCEPT ![w] = @ + 1]
            /\ resp' = [resp EXCEPT ![w] = NoResp]
            /\ pc' = [pc EXCEPT ![w] = "failed"]
            /\ running' = "none"
            /\ UNCHANGED ret
    /\ UNCHANGED <<cfgvars, commiters_cache, mainvars, locals, url, sent,
                   nfail, nsleep, histvars>>

\* lines 28-36: return the payload on 200, else log and sleep
HandleResp(w) ==
    /\ pc[w] = "resp"
    /\ Holding(w)
    /\ IF resp[w].status = 200
       THEN /\ ret' = [ret EXCEPT ![w] = resp[w].body]
            /\ pc' = [pc EXCEPT ![w] = "ret"]
            /\ UNCHANGED <<nerr, running, resp>>
       ELSE /\ nerr' = [nerr EXCEPT ![w] = @ + 1]
            /\ resp' = [resp EXCEPT ![w] = NoResp]
            /\ pc' = [pc EXCEPT ![w] = "sleep"]
            /\ running' = "none"
            /\ UNCHANGED ret
    /\ UNCHANGED <<cfgvars, commiters_cache, mainvars, locals, url, sent,
                   nfail, nsleep, histvars>>

\* the cooldown is over: next iteration of while True, same url
WakeUp(w) ==
    /\ pc[w] = "sleep"
    /\ Resume(w)
    /\ nsleep' = [nsleep EXCEPT ![w] = @ + 1]
    /\ sent' = [sent EXCEPT ![w] = Append(@, url[w])]
    /\ pc' = [pc EXCEPT ![w] = "get"]
    /\ running' = "none"
    /\ UNCHANGED <<cfgvars, commiters_cache, mainvars, locals, url, nfail,
                   nerr, resp, ret, histvars>>

\* Timeout with the TimeoutError caught inside load_with_retry and handled
\* like a non-200 answer: cooldown, then the next attempt
TimeoutRetries(w) ==
    /\ pc[w] = "get"
    /\ ~(Kind(url[w]) = "commits" /\ w \in api.stuck)
    /\ nfail[w] < api.failures
    /\ Resume(w)
    /\ nfail' = [nfail EXCEPT ![w] = @ + 1]
    /\ nerr' = [nerr EXCEPT ![w] = @ + 1]
    /\ pc' = [pc EXCEPT ![w] = "sleep"]
    /\ running' = "none"
    /\ UNCHANGED <<cfgvars, commiters_cache, mainvars, locals, url, sent, nsleep,
                   resp, ret, histvars>>

\* Timeout with the worker catching the error and returning what it has
\* tallied so far
TimeoutSalvages(w) ==
    /\ pc[w] = "get"
    /\ ~(Kind(url[w]) = "commits" /\ w \in api.stuck)
    /\ Resume(w)
    /\ pc' = [pc EXCEPT ![w] = "failed"]
    /\ running' = "none"
    /\ result' = [result EXCEPT ![w] = [repo |-> w, commiters |-> commiters[w]]]
    /\ data' = [data EXCEPT ![w] = <<>>]
    /\ idx' = [idx EXCEPT ![w] = 1]
    /\ retval' = [retval EXCEPT ![w] = <<>>]
    /\ profile_data' = [profile_data EXCEPT ![w] = NoProfile]
    /\ commiters' = [commiters EXCEPT ![w] = <<>>]
    /\ UNCHANGED <<cfgvars, commiters_cache, mainvars, repo_summary, page,
                   callvars, resp, ret, histvars>>

\* line 26: no response within DEFAULT_HTTP_TIMEOUT; the TimeoutError is
\* caught nowhere, unwinds the frames of the worker and ends its task.
\* A stuck request is one the remote does answer, so it does not time out.
Timeout(w) ==
    /\ pc[w] = "get"
    /\ ~(Kind(url[w]) = "commits" /\ w \in api.stuck)
    /\ Resume(w)
    /\ pc' = [pc EXCEPT ![w] = "failed"]
    /\ running' = "none"
    /\ data' = [data EXCEPT ![w] = <<>>]
    /\ idx' = [idx EXCEPT ![w] = 1]
    /\ retval' = [retval EXCEPT ![w] = <<>>]
    /\ profile_data' = [profile_data EXCEPT ![w] = NoProfile]
    /\ commiters' = [commiters EXCEPT ![w] = <<>>]
    /\ UNCHANGED <<cfgvars, commiters_cache, mainvars, repo_summary, page, result,
                   callvars, resp, ret, histvars>>

\* ---------------------------------------------------------- worker, 77-102
\* lines 78-83: the task starts and asks for the summary
Start(w) ==
    /\ pc[w] = "start"
    /\ Resume(w)
    /\ commiters' = [commiters EXCEPT ![w] = <<>>]
    /\ Call(w, SummaryUrl(w, config.accessToken))
    /\ UNCHANGED <<cfgvars, commiters_cache, mainvars, repo_summary, page, data,
                   idx, retval, profile_data, result, histvars>>

\* GotSummary with `page = 1` on line 85
GotSummaryStartsAtOne(w) ==
    /\ pc[w] = "ret" /\ Kind(url[w]) = "summary"
    /\ Holding(w)
    /\ repo_summary' = [repo_summary EXCEPT ![w] = ret[w]]
    /\ page' = [page EXCEPT ![w] = 1]
    /\ pc' = [pc EXCEPT ![w] = "loop"]
    /\ UNCHANGED <<cfgvars, commiters_cache, mainvars, running, data, idx, retval,
                   profile_data, commiters, result, callvars, resp, ret, histvars>>

\* lines 83-85
GotSummary(w) ==
    /\ pc[w] = "ret" /\ Kind(url[w]) = "summary"
    /\ Holding(w)
    /\ repo_summary' = [repo_summary EXCEPT ![w] = ret[w]]
    /\ page' = [page EXCEPT ![w] = 0]
    /\ pc' = [pc EXCEPT ![w] = "loop"]
    /\ UNCHANGED <<cfgvars, commiters_cache, mainvars, running, data, idx, retval,
                   profile_data, commiters, result, callvars, resp, ret, histvars>>

\* lines 86-90: next iteration of the page loop
NextPage(w) ==
    /\ pc[w] = "loop"
    /\ Holding(w)
    /\ page' = [page EXCEPT ![w] = @ + 1]
    /\ Call(w, CommitsUrl(w, config.accessToken, DEFAULT_PER_PAGE_LIMIT, page[w] + 1))
    /\ UNCHANGED <<cfgvars, commiters_cache, mainvars, repo_summary, data, idx,
                   retval, profile_data, commiters, result, histvars>>

\* GotPage with the test of line 91 skipped on the first page
GotPageNoBreak(w) ==
    /\ pc[w] = "ret" /\ Kind(url[w]) = "commits"
    /\ Holding(w)
    /\ data' = [data EXCEPT ![w] = ret[w]]
    /\ IF Len(ret[w]) = 0 /\ page[w] > 1
       THEN /\ pc' = [pc EXCEPT ![w] = "finish"]
            /\ UNCHANGED <<retval, idx>>
       ELSE /\ pc' = [pc EXCEPT ![w] = "commit"]
            /\ retval' = [retval EXCEPT ![w] = <<>>]
            /\ idx' = [idx EXCEPT ![w] = 1]
    /\ UNCHANGED <<cfgvars, commiters_cache, mainvars, running, repo_summary, page,
                   profile_data, commiters, result, callvars, resp, ret, histvars>>

\* lines 90-93 and 40: an empty page breaks the loop, any other is resolved
GotPage(w) ==
    /\ pc[w] = "ret" /\ Kind(url[w]) = "commits"
    /\ Holding(w)
    /\ data' = [data EXCEPT ![w] = ret[w]]
    /\ IF Len(ret[w]) = 0
       THEN /\ pc' = [pc EXCEPT ![w] = "finish"]
            /\ UNCHANGED <<retval, idx>>
       ELSE /\ pc' = [pc EXCEPT ![w] = "commit"]
            /\ retval' = [retval EXCEPT ![w] = <<>>]
            /\ idx' = [idx EXCEPT ![w] = 1]
    /\ UNCHANGED <<cfgvars, commiters_cache, mainvars, running, repo_summary, page,
                   profile_data, commiters, result, callvars, resp, ret, histvars>>

\* ResolveCommit with `break` for `continue` on line 43
ResolveCommitStopsPage(w) ==
    /\ pc[w] = "commit" /\ idx[w] <= Len(data[w])
    /\ Holding(w)
    /\ LET commit == data[w][idx[w]] IN
       IF commit.author = NoneObj \/ "login" \notin DOMAIN commit.author
       THEN /\ idx' = [idx EXCEPT ![w] = Len(data[w]) + 1]
            /\ UNCHANGED <<commiters_cache, profile_data, fetches, pc, running,
                           callvars, resp, ret>>
       ELSE LET login == commit.author.login IN
            IF login \notin DOMAIN commiters_cache
            THEN /\ fetches' = [fetches EXCEPT ![w][login] = @ + 1]
                 /\ Call(w, ProfileUrl(commit.author.url, config.accessToken))
                 /\ UNCHANGED <<commiters_cache, profile_data, idx>>
            ELSE /\ profile_data' = [profile_data EXCEPT ![w] = commiters_cache[login]]
                 /\ pc' = [pc EXCEPT ![w] = "filter"]
                 /\ UNCHANGED <<commiters_cache, fetches, idx, running, callvars,
                                resp, ret>>
    /\ UNCHANGED <<cfgvars, mainvars, repo_summary, page, data, retval, commiters,
                   result, npages, nempty, seen>>

\* ResolveCommit taking a login found in the cache as already handled: the
\* commit is skipped
ResolveCommitSkipsHit(w) ==
    /\ pc[w] = "commit" /\ idx[w] <= Len(data[w])
    /\ Holding(w)
    /\ LET commit == data[w][idx[w]] IN
       IF commit.author = NoneObj \/ "login" \notin DOMAIN commit.author
       THEN /\ idx' = [idx EXCEPT ![w] = @ + 1]
            /\ UNCHANGED <<commiters_cache, profile_data, fetches, pc, running,
                           callvars, resp, ret>>
       ELSE LET login == commit.author.login IN
            IF login \notin DOMAIN commiters_cache
            THEN /\ fetches' = [fetches EXCEPT ![w][login] = @ + 1]
                 /\ Call(w, ProfileUrl(commit.author.url, config.accessToken))
                 /\ UNCHANGED <<commiters_cache, profile_data, idx>>
            ELSE /\ idx' = [idx EXCEPT ![w] = @ + 1]
                 /\ UNCHANGED <<commiters_cache, profile_data, fetches, pc, running,
                                callvars, resp, ret>>
    /\ UNCHANGED <<cfgvars, mainvars, repo_summary, page, data, retval, commiters,
                   result, npages, nempty, seen>>

\* ResolveCommit without the cache lookup of line 46: every commit is fetched
ResolveCommitNoLookup(w) ==
    /\ pc[w] = "commit" /\ idx[w] <= Len(data[w])
    /\ Holding(w)
    /\ LET commit == data[w][idx[w]] IN
       IF commit.author = NoneObj \/ "login" \notin DOMAIN commit.author
       THEN /\ idx' = [idx EXCEPT ![w] = @ + 1]
            /\ UNCHANGED <<commiters_cache, profile_data, fetches, pc, running,
                           callvars, resp, ret>>
       ELSE /\ fetches' = [fetches EXCEPT ![w][commit.author.login] = @ + 1]
            /\ Call(w, ProfileUrl(commit.author.url, config.accessToken))
            /\ UNCHANGED <<commiters_cache, profile_data, idx>>
    /\ UNCHANGED <<cfgvars, mainvars, repo_summary, page, data, retval, commiters,
                   result, npages, nempty, seen>>

\* lines 41-50: one iteration of `for commit in commits` up to the filter
ResolveCommit(w) ==
    /\ pc[w] = "commit" /\ idx[w] <= Len(data[w])
    /\ Holding(w)
    /\ LET commit == data[w][idx[w]] IN
       IF commit.author = NoneObj \/ "login" \notin DOMAIN commit.author
       THEN /\ idx' = [idx EXCEPT ![w] = @ + 1]
            /\ UNCHANGED <<commiters_cache, profile_data, fetches, pc, running,
                           callvars, resp, ret>>
       ELSE LET login == commit.author.login IN
            IF login \notin DOMAIN commiters_cache
            THEN /\ fetches' = [fetches EXCEPT ![w][login] = @ + 1]
                 /\ Call(w, ProfileUrl(commit.author.url, config.accessToken))
                 /\ UNCHANGED <<commiters_cache, profile_data, idx>>
            ELSE /\ profile_data' = [profile_data EXCEPT ![w] = commiters_cache[login]]
                 /\ pc' = [pc EXCEPT ![w] = "filter"]
                 /\ UNCHANGED <<commiters_cache, fetches, idx, running, callvars,
                                resp, ret>>
    /\ UNCHANGED <<cfgvars, mainvars, repo_summary, page, data, retval, commiters,
                   result, npages, nempty, seen>>

\* StoreProfile without line 48: the fetched profile is used and not kept
StoreProfileLocalOnly(w) ==
    /\ pc[w] = "ret" /\ Kind(url[w]) = "profile"
    /\ Holding(w)
    /\ profile_data' = [profile_data EXCEPT ![w] = ret[w]]
    /\ pc' = [pc EXCEPT ![w] = "filter"]
    /\ UNCHANGED <<cfgvars, commiters_cache, mainvars, running, repo_summary, page,
                   data, idx, retval, commiters, result, callvars, resp, ret,
                   histvars>>

\* StoreProfile with `commiters_cache = {login: profile_data}` on line 48
StoreProfileReplacesCache(w) ==
    /\ pc[w] = "ret" /\ Kind(url[w]) = "profile"
    /\ Holding(w)
    /\ profile_data' = [profile_data EXCEPT ![w] = ret[w]]
    /\ commiters_cache' = (data[w][idx[w]].author.login :> ret[w])
    /\ pc' = [pc EXCEPT ![w] = "filter"]
    /\ UNCHANGED <<cfgvars, mainvars, running, repo_summary, page, data, idx, retval,
                   commiters, result, callvars, resp, ret, histvars>>

\* StoreProfile caching only the profiles that match a configured location
StoreProfileIfMatched(w) ==
    /\ pc[w] = "ret" /\ Kind(url[w]) = "profile"
    /\ Holding(w)
    /\ profile_data' = [profile_data EXCEPT ![w] = ret[w]]
    /\ commiters_cache' =
         IF LocationMatches(config.locations, 1, ret[w].location)
         THEN (data[w][idx[w]].author.login :> ret[w]) @@ commiters_cache
         ELSE commiters_cache
    /\ pc' = [pc EXCEPT ![w] = "filter"]
    /\ UNCHANGED <<cfgvars, mainvars, running, repo_summary, page, data, idx, retval,
                   commiters, result, callvars, resp, ret, histvars>>

\* lines 47-48: the profile came back and is stored under the login
StoreProfile(w) ==
    /\ pc[w] = "ret" /\ Kind(url[w]) = "profile"
    /\ Holding(w)
    /\ profile_data' = [profile_data EXCEPT ![w] = ret[w]]
    /\ commiters_cache' =
         (data[w][idx[w]].author.login :> ret[w]) @@ commiters_cache
    /\ pc' = [pc EXCEPT ![w] = "filter"]
    /\ UNCHANGED <<cfgvars, mainvars, running, repo_summary, page, data, idx, retval,
                   commiters, result, callvars, resp, ret, histvars>>

\* lines 51-54, then the next commit
ApplyFilter(w) ==
    /\ pc[w] = "filter"
    /\ Holding(w)
    /\ retval' = [retval EXCEPT ![w] =
                     FilterAppend(@, data[w][idx[w]].author.login, profile_data[w],
                                  config.locations)]
    /\ idx' = [idx EXCEPT ![w] = @ + 1]
    /\ pc' = [pc EXCEPT ![w] = "commit"]
    /\ UNCHANGED <<cfgvars, commiters_cache, mainvars, running, repo_summary, page,
                   data, profile_data, commiters, result, callvars, resp, ret, histvars>>

\* Tally with the cache emptied after every page
TallyClearsCache(w) ==
    /\ pc[w] = "commit" /\ idx[w] > Len(data[w])
    /\ Holding(w)
    /\ commiters' = [commiters EXCEPT ![w] = TallyAll(@, retval[w], 1)]
    /\ commiters_cache' = <<>>
    /\ data' = [data EXCEPT ![w] = <<>>]
    /\ idx' = [idx EXCEPT ![w] = 1]
    /\ retval' = [retval EXCEPT ![w] = <<>>]
    /\ profile_data' = [profile_data EXCEPT ![w] = NoProfile]
    /\ pc' = [pc EXCEPT ![w] = "loop"]
    /\ UNCHANGED <<cfgvars, mainvars, running, repo_summary, page,
                   result, callvars, resp, ret, histvars>>

\* lines 55 and 93-95: filter_commiters returns, the logins are tallied.
\* The frame of filter_commiters is gone and data is dead until line 90
\* assigns it again: both are reset.
Tally(w) ==
    /\ pc[w] = "commit" /\ idx[w] > Len(data[w])
    /\ Holding(w)
    /\ commiters' = [commiters EXCEPT ![w] = TallyAll(@, retval[w], 1)]
    /\ data' = [data EXCEPT ![w] = <<>>]
    /\ idx' = [idx EXCEPT ![w] = 1]
    /\ retval' = [retval EXCEPT ![w] = <<>>]
    /\ profile_data' = [profile_data EXCEPT ![w] = NoProfile]
    /\ pc' = [pc EXCEPT ![w] = "loop"]
    /\ UNCHANGED <<cfgvars, commiters_cache, mainvars, running, repo_summary, page,
                   result, callvars, resp, ret, histvars>>

\* lines 96-102: the task ends with its Result
Finish(w) ==
    /\ pc[w] = "finish"
    /\ Holding(w)
    /\ result' = [result EXCEPT ![w] =
                     [repo |-> w, name |-> repo_summary[w].name,
                      description |-> repo_summary[w].description,
                      commiters |-> commiters[w]]]
    /\ pc' = [pc EXCEPT ![w] = "done"]
    /\ running' = "none"
    /\ UNCHANGED <<cfgvars, commiters_cache, mainvars, loopvars, repo_summary, page,
                   data, idx, retval, profile_data, commiters, callvars, resp, ret,
                   histvars>>

\* ------------------------------------------------------------ main, 120-131
AllEnded == \A w \in Workers : pc[w] \in {"done", "failed"}

\* MainResume as with return_when=FIRST_EXCEPTION: the join ends with the
\* first failed worker
MainResumeFirstException ==
    /\ mainpc = "wait"
    /\ AllEnded \/ \E w \in Workers : pc[w] = "failed"
    /\ Resume("main")
    /\ mainpc' = "export"
    /\ finished' = Workers
    /\ running' = "main"
    /\ UNCHANGED <<cfgvars, commiters_cache, exported, csv, pc, locals, callvars,
                   resp, ret, histvars>>

\* MainResume as with asyncio.wait(workers, timeout=...): the join gives up
\* and hands over the futures that are done by then
MainResumeOnTimeout ==
    /\ mainpc = "wait"
    /\ Resume("main")
    /\ mainpc' = "export"
    /\ finished' = {w \in Workers : pc[w] \in {"done", "failed"}}
    /\ running' = "main"
    /\ UNCHANGED <<cfgvars, commiters_cache, exported, csv, pc, locals, callvars,
                   resp, ret, histvars>>

\* MainResume as with return_when=FIRST_COMPLETED: one ended worker is enough
MainResumeFirstCompleted ==
    /\ mainpc = "wait"
    /\ \E w \in Workers : pc[w] \in {"done", "failed"}
    /\ Resume("main")
    /\ mainpc' = "export"
    /\ finished' = Workers
    /\ running' = "main"
    /\ UNCHANGED <<cfgvars, commiters_cache, exported, csv, pc, locals, callvars,
                   resp, ret, histvars>>

\* line 127: asyncio.wait returns once every worker task has ended
MainResume ==
    /\ mainpc = "wait"
    /\ AllEnded
    /\ Resume("main")
    /\ mainpc' = "export"
    /\ finished' = Workers
    /\ running' = "main"
    /\ UNCHANGED <<cfgvars, commiters_cache, exported, csv, pc, locals, callvars,
                   resp, ret, histvars>>

\* out_to_csv, 105-117: one row per key of the counter
Rows(d) ==
    {[login |-> commiters_cache[c].login, commit_count |-> d.commiters[c]] :
        c \in DOMAIN d.commiters}

\* lines 130-131: the next future of the set; result() re-raises the
\* exception of a failed worker, a missing cache key raises KeyError
Export(w) ==
    /\ mainpc = "export"
    /\ Holding("main")
    /\ w \in finished
    /\ IF \/ pc[w] # "done"
          \/ ~(DOMAIN result[w].commiters \subseteq DOMAIN commiters_cache)
       THEN /\ mainpc' = "crashed"
            /\ running' = "none"
            /\ UNCHANGED <<finished, exported, csv>>
       ELSE /\ exported' = Append(exported, result[w])
            /\ csv' = (result[w].name :> Rows(result[w])) @@ csv
            /\ finished' = finished \ {w}
            /\ UNCHANGED <<mainpc, running>>
    /\ UNCHANGED <<cfgvars, commiters_cache, pc, locals, callvars, resp, ret, histvars>>

\* main() returns and run_until_complete ends the loop
MainDone ==
    /\ mainpc = "export"
    /\ running = "main"
    /\ finished = {}
    /\ mainpc' = "done"
    /\ running' = "none"
    /\ loop' = "stopped"
    /\ batch' = {}
    /\ UNCHANGED <<cfgvars, commiters_cache, abandoned, finished, exported, csv, pc,
                   locals, callvars, resp, ret, histvars>>

\* ---------------------------------------------------- sigterm_handler, 72-74
ReadyTasks ==
    {w \in Workers : pc[w] \in {"start", "get", "sleep"}}
    \cup (IF mainpc = "wait" /\ AllEnded THEN {"main"} ELSE {})

InFlight == {w \in Workers : pc[w] \notin {"done", "failed"}}

\* Sigterm without line 74: the handler is removed and the loop goes on
SigtermNoStop ==
    /\ running = "none"
    /\ loop = "running"
    /\ mainpc = "wait"
    /\ abandoned = {}
    /\ loop' = "running"
    /\ batch' = {}
    /\ abandoned' = InFlight
    /\ UNCHANGED <<cfgvars, commiters_cache, running, mainvars, pc, locals, callvars,
                   resp, ret, histvars>>

\* loop.stop(): the callbacks already scheduled for this iteration still run
Sigterm ==
    /\ running = "none"
    /\ loop = "running"
    /\ mainpc = "wait"
    /\ loop' = "stopping"
    /\ batch' = ReadyTasks
    /\ abandoned' = InFlight
    /\ UNCHANGED <<cfgvars, commiters_cache, running, mainvars, pc, locals, callvars,
                   resp, ret, histvars>>

\* the iteration is over: run_until_complete raises, nothing runs any more
LoopStop ==
    /\ running = "none"
    /\ loop = "stopping"
    /\ loop' = "stopped"
    /\ batch' = {}
    /\ UNCHANGED <<cfgvars, commiters_cache, running, abandoned, mainvars, pc, locals, callvars,
                   resp, ret, histvars>>

\* ------------------------------------------------------------------- Spec
Next ==
    \/ \E w \in Workers : Start(w)
    \/ \E w \in Workers : Receive(w)
    \/ \E w \in Workers : HandleResp(w)
    \/ \E w \in Workers : WakeUp(w)
    \/ \E w \in Workers : Timeout(w)
    \/ \E w \in Workers : GotSummary(w)
    \/ \E w \in Workers : NextPage(w)
    \/ \E w \in Workers : GotPage(w)
    \/ \E w \in Workers : ResolveCommit(w)
    \/ \E w \in Workers : StoreProfile(w)
    \/ \E w \in Workers : ApplyFilter(w)
    \/ \E w \in Workers : Tally(w)
    \/ \E w \in Workers : Finish(w)
    \/ MainResume
    \/ \E w \in Workers : Export(w)
    \/ MainDone
    \/ Sigterm
    \/ LoopStop

Spec == Init /\ [][Next]_vars

\* ------------------------------------------------------- the undisturbed run
\* No signal and no transport timeout.  The loop runs every ready task
\* (its ready queue is first in, first out), so a task that can be resumed
\* again and again is resumed, and a task holding the loop runs on to its
\* next suspension; every request is eventually answered with status 200.
NextLive ==
    \/ \E w \in Workers : Start(w)
    \/ \E w \in Workers : Receive(w)
    \/ \E w \in Workers : HandleResp(w)
    \/ \E w \in Workers : WakeUp(w)
    \/ \E w \in Workers : GotSummary(w)
    \/ \E w \in Workers : NextPage(w)
    \/ \E w \in Workers : GotPage(w)
    \/ \E w \in Workers : ResolveCommit(w)
    \/ \E w \in Workers : StoreProfile(w)
    \/ \E w \in Workers : ApplyFilter(w)
    \/ \E w \in Workers : Tally(w)
    \/ \E w \in Workers : Finish(w)
    \/ MainResume
    \/ \E w \in Workers : Export(w)
    \/ MainDone

RunsOn(w) ==
    \/ HandleResp(w)
    \/ GotSummary(w)
    \/ NextPage(w)
    \/ GotPage(w)
    \/ ResolveCommit(w)
    \/ StoreProfile(w)
    \/ ApplyFilter(w)
    \/ Tally(w)
    \/ Finish(w)

Fairness ==
    /\ \A w \in Repos :
         /\ SF_vars(Start(w))
         /\ SF_vars(ReceiveStatus(w, 200))
         /\ SF_vars(WakeUp(w))
         /\ WF_vars(RunsOn(w))
    /\ SF_vars(MainResume)
    /\ WF_vars(\E w \in Workers : Export(w))
    /\ WF_vars(MainDone)

InitLive ==
    InitWith(ConfigsOver({Repos}, {<< <<"B">>, <<"b">> >>}), {NarrowApi},
             {<<"t", "B">>, <<"t">>})

SpecLive == InitLive /\ [][NextLive]_vars /\ Fairness

\* ------------------------------------------------- a remote that is edited
\* The profile the remote serves for a login is whatever the account holds
\* when the GET of line 47 is answered: between two fetches of one login the
\* owner may have edited the location (here: once per login, from <<"t">>
\* to <<"t", "B">>).
RemoteEdit(l) ==
    /\ profiles[l].location = <<"t">>
    /\ profiles' = [profiles EXCEPT ![l].location = <<"t", "B">>]
    /\ UNCHANGED <<config, api, commiters_cache, running, loopvars, mainvars, pc,
                   locals, callvars, resp, ret, histvars>>

NextDrift ==
    \/ Next
    \/ \E l \in Logins : RemoteEdit(l)

SpecDrift == InitLive /\ [][NextDrift]_vars

\* ------------------------------------------------ the location filter alone
\* The state of worker r1 right after line 48 stored the profile of the first
\* commit of page 1, for every configured list of up to MaxLocs substrings of
\* up to MaxSub characters and every location of up to MaxStr characters.
FilterUrl == ProfileUrl(AuthorUrl("alice"), "tok")

InitFilter ==
    /\ config \in ConfigsOver({{"r1"}}, SeqsUpTo(Strings(MaxSub), MaxLocs))
    /\ api = NarrowApi
    /\ \E loc \in Strings(MaxStr) \cup {NoneStr} :
         profiles = [l \in Logins |->
                        Profile(l, IF l = "alice" THEN loc ELSE NoneStr)]
    /\ commiters_cache = ("alice" :> profiles["alice"])
    /\ running = "r1"
    /\ loop = "running"
    /\ batch = {}
    /\ abandoned = {}
    /\ mainpc = "wait"
    /\ finished = {}
    /\ exported = <<>>
    /\ csv = <<>>
    /\ pc = [w \in Workers |-> "filter"]
    /\ url = [w \in Workers |-> FilterUrl]
    /\ resp = [w \in Workers |-> [status |-> 200, body |-> profiles["alice"]]]
    /\ ret = [w \in Workers |-> profiles["alice"]]
    /\ repo_summary = [w \in Workers |-> Summary(w)]
    /\ page = [w \in Workers |-> 1]
    /\ data = [w \in Workers |-> <<Commit("alice")>>]
    /\ idx = [w \in Workers |-> 1]
    /\ retval = [w \in Workers |-> <<>>]
    /\ profile_data = [w \in Workers |-> profiles["alice"]]
    /\ commiters = [w \in Workers |-> <<>>]
    /\ result = [w \in Workers |-> NoResult]
    /\ sent = [w \in Workers |-> <<FilterUrl>>]
    /\ nfail = [w \in Workers |-> 0]
    /\ nerr = [w \in Workers |-> 0]
    /\ nsleep = [w \in Workers |-> 0]
    /\ npages = [w \in Workers |-> 1]
    /\ nempty = [w \in Workers |-> 0]
    /\ seen = [w \in Workers |-> [l \in Logins |-> IF l = "alice" THEN 1 ELSE 0]]
    /\ fetches = [w \in Workers |-> [l \in Logins |-> IF l = "alice" THEN 1 ELSE 0]]

NextFilter ==
    \/ \E w \in Workers : ApplyFilter(w)
    \/ \E w \in Workers : Tally(w)

SpecFilter == InitFilter /\ [][NextFilter]_vars

TypeOK ==
    /\ running \in Workers \cup {"none", "main"}
    /\ loop \in {"running", "stopping", "stopped"}
    /\ abandoned \subseteq Workers
    /\ mainpc \in {"wait", "export", "done", "crashed"}
    /\ \A w \in Workers :
         pc[w] \in {"start", "get", "resp", "sleep", "ret", "loop", "commit",
                    "filter", "finish", "done", "failed"}
    /\ DOMAIN commiters_cache \subseteq Logins

\* ======================================================== checked properties
\* what the specification means by a matching profile, stated without the
\* code's loop and without str.lower(): some configured substring occurs in
\* the location up to the case of the letters
SameLetter(c, d) == c = d \/ {c, d} = {"b", "B"}

OccursIn(sub, s) ==
    \E i \in 0..(Len(s) - Len(sub)) : \A j \in 1..Len(sub) : SameLetter(sub[j], s[i + j])

Passes(location, locs) ==
    /\ location # NoneStr
    /\ \E k \in 1..Len(locs) : OccursIn(locs[k], location)

\* commits of login l that worker w was served and that pass the filter
Expected(w, l) ==
    IF Passes(profiles[l].location, config.locations) THEN seen[w][l] ELSE 0

CounterGet(c, k) == IF k \in DOMAIN c THEN c[k] ELSE 0

RECURSIVE SumOver(_, _)
SumOver(f, S) ==
    IF S = {} THEN 0
    ELSE LET x == CHOOSE y \in S : TRUE IN f[x] + SumOver(f, S \ {x})

InCall(w) == pc[w] \in {"get", "resp", "sleep", "ret"}

\* C1: retry convergence.  When a call of load_with_retry returns, the remote
\* having answered non-200 K times and then 200, the code has sent exactly
\* K+1 requests, all to the url of the call, has slept exactly K cooldowns,
\* has logged exactly K errors, and returns the body of the last (200) answer.
RetryConvergence ==
    \A w \in Workers :
        pc[w] = "ret" =>
            /\ resp[w].status = 200
            /\ ret[w] = resp[w].body
            /\ Len(sent[w]) = nfail[w] + 1
            /\ \A i \in 1..Len(sent[w]) : sent[w][i] = url[w]
            /\ nsleep[w] = nfail[w]
            /\ nerr[w] = nfail[w]

RetryConvergenceWitness ==
    \E w \in Workers :
        /\ pc[w] = "ret"
        /\ nfail[w] = 2
        /\ Kind(url[w]) = "commits"
        /\ Len(ret[w]) > 0

\* C2: pagination termination.  A worker never receives a second empty page;
\* once it has received an empty page it makes no further request; a page
\* request always asks for the page after the last one served; and a finished
\* worker has been served N non-empty pages and one empty page by exactly
\* N+1 successful requests, N+1 being the last page number it asked for, and
\* has tallied every passing commit of the N pages.
PaginationTermination ==
    \A w \in Workers :
        /\ nempty[w] <= 1
        /\ nempty[w] = 1 => pc[w] \in {"resp", "ret", "finish", "done"}
        /\ (InCall(w) /\ Kind(url[w]) = "commits") =>
              /\ url[w].page = page[w]
              /\ pc[w] \in {"get", "sleep"} => page[w] = npages[w] + 1
              /\ pc[w] = "resp" => page[w] = npages[w] + (IF resp[w].status = 200 THEN 0 ELSE 1)
              /\ pc[w] = "ret" => page[w] = npages[w]
        /\ pc[w] = "done" =>
              /\ nempty[w] = 1
              /\ page[w] = npages[w]
              /\ SumOver(commiters[w], DOMAIN commiters[w])
                   = SumOver([l \in Logins |-> Expected(w, l)], Logins)

PaginationTerminationWitness ==
    \E w \in Workers :
        /\ pc[w] = "done"
        /\ npages[w] = 2
        /\ api.depth >= 2
        /\ DOMAIN commiters[w] # {}

\* C3: tally correctness.  In the Result of a finished worker a login is a key
\* of the counter exactly if some commit served to the worker carries it and
\* its profile passes the filter, and its count is the number of such commits
\* (one per commit, however many configured locations match).
TallyCorrect ==
    \A w \in Workers :
        pc[w] = "done" =>
            \A l \in Logins :
                /\ l \in DOMAIN result[w].commiters <=> Expected(w, l) > 0
                /\ CounterGet(result[w].commiters, l) = Expected(w, l)

TallyCorrectWitness ==
    \E w \in Workers :
        /\ pc[w] = "done"
        /\ npages[w] = 3
        /\ result[w].commiters = ("alice" :> 2)
        /\ seen[w]["bob"] = 1
        /\ Len(config.locations) = 2
        /\ \A k \in 1..2 : OccursIn(config.locations[k], profiles["alice"].location)

\* C4: cache single-fetch without concurrency.  In a run with one worker no
\* login is fetched twice, a login is fetched only if a served commit carries
\* it, and when the worker has finished every login carried by a served
\* commit has been fetched exactly once, matching profile or not.
SingleFetch ==
    Cardinality(Workers) = 1 =>
        \A w \in Workers, l \in Logins :
            /\ fetches[w][l] <= 1
            /\ fetches[w][l] = 1 => seen[w][l] > 0
            /\ pc[w] = "done" => fetches[w][l] = (IF seen[w][l] > 0 THEN 1 ELSE 0)

SingleFetchWitness ==
    \E w \in Workers :
        /\ Cardinality(Workers) = 1
        /\ pc[w] = "done"
        /\ seen[w]["alice"] >= 2
        /\ ~Passes(profiles["alice"].location, config.locations)
        /\ fetches[w]["alice"] = 1

\* C5: location filter semantics.  Once the filter has run on a commit, the
\* login was appended exactly if the profile's location is non-null and some
\* configured substring occurs in it up to case; a null location and an empty
\* list of locations append nothing; the tally counts the login accordingly.
FilterSemantics ==
    \A w \in Workers :
        LET location == profiles["alice"].location
            passes == Passes(location, config.locations)
        IN  /\ (pc[w] = "commit" /\ idx[w] = 2) =>
                  /\ retval[w] = (IF passes THEN <<"alice">> ELSE <<>>)
                  /\ location = NoneStr => retval[w] = <<>>
                  /\ config.locations = <<>> => retval[w] = <<>>
            /\ pc[w] = "loop" =>
                  /\ DOMAIN commiters[w] = (IF passes THEN {"alice"} ELSE {})
                  /\ passes => commiters[w]["alice"] = 1

FilterSemanticsWitness ==
    \E w \in Workers :
        /\ pc[w] = "commit" /\ idx[w] = 2
        /\ retval[w] = <<"alice">>
        /\ profiles["alice"].location = <<"b", "b">>
        /\ config.locations = << <<"t">>, <<"B">> >>

\* C6: contributor exclusion.  The step that resolves a commit whose author
\* is null or has no login appends no contributor, starts no fetch, sends no
\* request, leaves the cache as it is, and moves on to the next commit of the
\* same page.
SkipsStep(w) ==
    /\ retval' = retval
    /\ commiters_cache' = commiters_cache
    /\ fetches' = fetches
    /\ sent' = sent
    /\ data' = data
    /\ pc'[w] = "commit"
    /\ idx'[w] = idx[w] + 1

ContributorExclusion ==
    [][\A w \in Workers :
          (/\ pc[w] = "commit"
           /\ running = w
           /\ idx[w] <= Len(data[w])
           /\ \/ data[w][idx[w]].author = NoneObj
              \/ "login" \notin DOMAIN data[w][idx[w]].author)
          => SkipsStep(w)]_vars

ContributorExclusionWitness ==
    \E w \in Workers :
        /\ pc[w] = "commit"
        /\ idx[w] = 3
        /\ data[w][1].author = NoneObj
        /\ HasLogin(data[w][2])
        /\ retval[w] = <<data[w][2].author.login>>

\* C7: join barrier.  main() is past asyncio.wait, and a Result has been
\* handed to out_to_csv, only when every worker has ended.
JoinBarrier ==
    (mainpc \in {"export", "done", "crashed"} \/ Len(exported) > 0 \/ DOMAIN csv # {})
        => AllEnded

JoinBarrierWitness ==
    /\ Cardinality(Workers) = 2
    /\ Len(exported) = 1
    /\ \E w \in Workers : pc[w] = "done" /\ DOMAIN result[w].commiters # {}

\* C8: duplicate-fetch race.  A worker is fetching the profile of a login
\* that is (by then) in the cache only if another worker fetched that login
\* as well: a redundant fetch is always the result of two workers missing the
\* cache for the same login.  The witness is the race itself.
FetchingProfile(w, l) ==
    /\ pc[w] \in {"get", "resp", "sleep", "ret"}
    /\ url[w] = ProfileUrl(AuthorUrl(l), config.accessToken)

DuplicateFetchIsRace ==
    \A w \in Workers, l \in Logins :
        (FetchingProfile(w, l) /\ l \in DOMAIN commiters_cache)
            => \E v \in Workers \ {w} : fetches[v][l] >= 1

DuplicateFetchRace ==
    \E w \in Workers, v \in Workers, l \in Logins :
        /\ w # v
        /\ pc[w] = "get" /\ FetchingProfile(w, l)
        /\ pc[v] = "get" /\ FetchingProfile(v, l)
        /\ l \notin DOMAIN commiters_cache
        /\ fetches[w][l] + fetches[v][l] = 2

\* C9: unbounded blanket retry.  A call is left with a return value only by
\* the step that handles a 200 answer, and the value is the body of that
\* answer; the step that handles any other status logs it and goes to the
\* cooldown sleep, whatever the status and however many attempts were made;
\* the sleep is left only by a request for the same url; and no answer makes
\* the call raise (only the transport timeout of a pending request does).
HandlesAnswer(w) ==
    IF resp[w].status = 200
    THEN /\ pc'[w] = "ret"
         /\ ret'[w] = resp[w].body
    ELSE /\ pc'[w] = "sleep"
         /\ nerr'[w] = nerr[w] + 1
         /\ url'[w] = url[w]

BlanketRetry ==
    [][\A w \in Workers :
          /\ (pc[w] = "resp" /\ pc'[w] # "resp") => HandlesAnswer(w)
          /\ (pc[w] = "sleep" /\ pc'[w] # "sleep") =>
                /\ pc'[w] = "get"
                /\ url'[w] = url[w]
                /\ sent'[w] = Append(sent[w], url[w])
                /\ nsleep'[w] = nsleep[w] + 1
          /\ (pc[w] # "ret" /\ pc'[w] = "ret") => (pc[w] = "resp" /\ resp[w].status = 200)
          /\ (pc[w] # "failed" /\ pc'[w] = "failed") => pc[w] = "get"]_vars

BlanketRetryWitness ==
    \E w \in Workers :
        /\ pc[w] = "get"
        /\ Len(sent[w]) = 3
        /\ nsleep[w] = 2
        /\ nerr[w] = 2

\* C10: run completion.  In the undisturbed run every worker eventually
\* finishes and main() ends having handed the Result of every configured
\* repository to out_to_csv exactly once.
ExportedOnce ==
    /\ Len(exported) = Cardinality(Workers)
    /\ \A w \in Workers :
         Cardinality({i \in 1..Len(exported) : exported[i] = result[w]
                                                /\ exported[i].repo = w}) = 1

RunCompletes ==
    <>[](/\ mainpc = "done"
         /\ \A w \in Workers : pc[w] = "done"
         /\ ExportedOnce)

RunCompletesWitness ==
    /\ mainpc = "done"
    /\ Cardinality(Workers) = 2
    /\ ExportedOnce
    /\ exported[1].repo = "r2"
    /\ \E w \in Workers : DOMAIN result[w].commiters # {}

\* C11: stall by one stuck worker.  In a run where the remote answers the
\* commits requests of one repository, but never with status 200, the worker
\* that has asked for its commits stays in the retry loop of that request
\* and never ends, main() stays in asyncio.wait, no Result is handed to
\* out_to_csv and no file is written, also when every other worker has
\* finished; the loop is stopped, if at all, by the signal and not by main().
Stuck(w) == w \in api.stuck /\ Kind(url[w]) = "commits"

StallByStuckWorker ==
    \A w \in Workers :
        Stuck(w) =>
            /\ pc[w] \in {"get", "resp", "sleep"}
            /\ pc[w] = "resp" => resp[w].status # 200
            /\ url[w].page = 1
            /\ mainpc = "wait"
            /\ finished = {}
            /\ exported = <<>>
            /\ DOMAIN csv = {}

StallByStuckWorkerWitness ==
    \E w \in Workers, v \in Workers :
        /\ Stuck(w)
        /\ pc[w] = "sleep"
        /\ nerr[w] = 2
        /\ v # w
        /\ pc[v] = "done"
        /\ DOMAIN result[v].commiters # {}
        /\ loop = "running"

\* C12: no partial-result salvage.  A worker that has failed has no Result,
\* whatever it had tallied, and neither a Result of its repository nor a file
\* for it has been handed to or written by the export step.
NoSalvage ==
    \A w \in Workers :
        pc[w] = "failed" =>
            /\ result[w] = NoResult
            /\ \A i \in 1..Len(exported) : exported[i].repo # w
            /\ Summary(w).name \notin DOMAIN csv

NoSalvageWitness ==
    \E w \in Workers :
        /\ pc[w] = "failed"
        /\ page[w] = 2
        /\ npages[w] = 1
        /\ \E l \in Logins : Expected(w, l) > 0
        /\ mainpc = "crashed"
        /\ Len(exported) = 1

\* C13: cancellation.  Once the signal has been handled while some worker was
\* in flight, the loop is stopping or stopped and never resumes main():
\* main() stays in asyncio.wait, no Result is handed to out_to_csv and no
\* file is written, whether the workers had finished before the signal,
\* finish in the loop's last iteration or never finish; once the loop has
\* stopped no task holds it and none is left to run.
Cancellation ==
    abandoned # {} =>
        /\ loop \in {"stopping", "stopped"}
        /\ "main" \notin batch
        /\ running # "main"
        /\ mainpc = "wait"
        /\ finished = {}
        /\ exported = <<>>
        /\ DOMAIN csv = {}
        /\ loop = "stopped" => (running = "none" /\ batch = {})

CancellationWitness ==
    /\ loop = "stopped"
    /\ Cardinality(Workers) = 2
    /\ Cardinality(abandoned) = 1
    /\ \A w \in Workers : pc[w] = "done" /\ DOMAIN result[w].commiters # {}
    /\ exported = <<>>

\* C14: request ordering inside one worker.  The summary is requested only
\* while no summary has been received and before any page was asked for,
\* and never again once it has been received; a page request asks for the
\* page after the last one served, the pages below it having been served
\* once each, and is made only when every commit served so far has been
\* tallied; while a page is being resolved no further page is asked for,
\* the commits before the current index have been resolved in array order
\* (the list of new contributors is the passing logins among them, in that
\* order) and the counter does not yet include the page.
PassingLogins == {l \in Logins : Passes(profiles[l].location, config.locations)}

RECURSIVE PassingPrefix(_, _, _)
PassingPrefix(d, k, passing) ==
    IF k = 0 THEN <<>>
    ELSE IF HasLogin(d[k]) /\ d[k].author.login \in passing
         THEN Append(PassingPrefix(d, k - 1, passing), d[k].author.login)
         ELSE PassingPrefix(d, k - 1, passing)

AwaitsPage(w) ==
    /\ Kind(url[w]) = "commits"
    /\ \/ pc[w] \in {"get", "sleep"}
       \/ pc[w] = "resp" /\ resp[w].status # 200

ResolvesPage(w) ==
    \/ pc[w] \in {"commit", "filter"}
    \/ InCall(w) /\ Kind(url[w]) = "profile"

RequestOrdering ==
    LET passing == PassingLogins IN
    \A w \in Workers :
        /\ (InCall(w) /\ Kind(url[w]) = "summary") =>
              /\ url[w] = SummaryUrl(w, config.accessToken)
              /\ DOMAIN repo_summary[w] = {}
              /\ page[w] = 0 /\ npages[w] = 0
        /\ Kind(url[w]) # "summary" => repo_summary[w] = Summary(w)
        /\ AwaitsPage(w) =>
              /\ url[w] = CommitsUrl(w, config.accessToken, DEFAULT_PER_PAGE_LIMIT,
                                     npages[w] + 1)
              /\ nempty[w] = 0
              /\ data[w] = <<>> /\ retval[w] = <<>>
              /\ \A l \in Logins :
                    CounterGet(commiters[w], l) = (IF l \in passing THEN seen[w][l] ELSE 0)
        /\ ResolvesPage(w) =>
              /\ page[w] = npages[w]
              /\ idx[w] \in 1..(Len(data[w]) + 1)
              /\ pc[w] # "commit" => idx[w] <= Len(data[w])
              /\ retval[w] = PassingPrefix(data[w], idx[w] - 1, passing)
              /\ InCall(w) =>
                    url[w] = ProfileUrl(data[w][idx[w]].author.url, config.accessToken)
              /\ \A l \in Logins :
                    IF l \in passing
                    THEN CounterGet(commiters[w], l) + CountLogin(data[w], l) = seen[w][l]
                    ELSE l \notin DOMAIN commiters[w]

RequestOrderingWitness ==
    \E w \in Workers :
        /\ pc[w] = "filter"
        /\ page[w] = 2
        /\ idx[w] = 2
        /\ Len(retval[w]) = 1
        /\ HasLogin(data[w][1])
        /\ retval[w][1] # data[w][2].author.login
        /\ \E l \in Logins : CounterGet(commiters[w], l) = 2

\* C15: interleaving independence.  The remote serving one profile per login
\* for the whole run, the counter of a finished worker is one and the same
\* function of the commits that worker was served, of the profiles and of the
\* configured locations, in the runs with one worker and in every
\* interleaving of two: it depends neither on who fetched a profile, nor on
\* how often it was fetched, nor on the state of the other worker.  Every
\* profile the filter is applied to, fetched or taken from the cache, is the
\* remote's profile of the commit's login.
AloneCount(w, l) ==
    IF LocationMatches(config.locations, 1, profiles[l].location)
    THEN seen[w][l] ELSE 0

InterleavingIndependence ==
    /\ \A l \in DOMAIN commiters_cache : commiters_cache[l] = profiles[l]
    /\ \A w \in Workers :
          /\ pc[w] = "filter" =>
                profile_data[w] = profiles[data[w][idx[w]].author.login]
          /\ pc[w] = "done" =>
                /\ DOMAIN result[w].commiters = {l \in Logins : AloneCount(w, l) > 0}
                /\ \A l \in DOMAIN result[w].commiters :
                      result[w].commiters[l] = AloneCount(w, l)

InterleavingIndependenceWitness ==
    \E w \in Workers, v \in Workers, l \in Logins :
        /\ w # v
        /\ pc[w] = "done" /\ pc[v] = "done"
        /\ fetches[w][l] = 1 /\ fetches[v][l] = 0
        /\ l \in DOMAIN result[w].commiters
        /\ l \in DOMAIN result[v].commiters
        /\ \E k \in Logins : fetches[w][k] = 1 /\ fetches[v][k] = 1

\* C16: cache entries, as claimed.  No step removes a login from the cache
\* or stores a different profile under a login that has one.
CacheEntriesImmutable ==
    [][\A l \in DOMAIN commiters_cache :
          /\ l \in DOMAIN commiters_cache'
          /\ commiters_cache'[l] = commiters_cache[l]]_vars

\* C16, amended: no step removes a login from the cache; the profile stored
\* under a login is replaced only by line 48 of a worker returning from its
\* own fetch of that login, which another worker fetched as well (the race),
\* and the new profile is the answer to that later fetch.
ReplacedByRacer(l) ==
    \E w \in Workers :
        /\ running = w
        /\ pc[w] = "ret"
        /\ FetchingProfile(w, l)
        /\ commiters_cache'[l] = ret[w]
        /\ \E v \in Workers \ {w} : fetches[v][l] >= 1

CacheEntriesKept ==
    [][\A l \in DOMAIN commiters_cache :
          /\ l \in DOMAIN commiters_cache'
          /\ commiters_cache'[l] # commiters_cache[l] => ReplacedByRacer(l)]_vars

\* the second store has happened: one worker filtered a login by the
\* profile it had stored, the cache now holds the edited one
CacheEntryReplaced ==
    \E w \in Workers, v \in Workers, l \in Logins :
        /\ w # v
        /\ fetches[w][l] = 1 /\ fetches[v][l] = 1
        /\ pc[v] = "done"
        /\ seen[v][l] > 0
        /\ l \notin DOMAIN result[v].commiters
        /\ pc[w] = "filter"
        /\ data[w][idx[w]].author.login = l
        /\ commiters_cache[l] = profile_data[w]
        /\ Passes(commiters_cache[l].location, config.locations)

\* C17: transport failure is not retried.  The step that leaves a pending
\* request without an answer ends the worker: no cooldown is slept, no
\* request is sent again, no error is logged by load_with_retry, the worker
\* has no Result, and the step changes nothing of any other worker, of the
\* cache, of main() or of the loop; a failed worker stays failed and sends
\* nothing more.
UnaffectedBy(w) ==
    /\ \A v \in Workers \ {w} :
          /\ pc'[v] = pc[v] /\ url'[v] = url[v]
          /\ resp'[v] = resp[v] /\ ret'[v] = ret[v]
          /\ page'[v] = page[v] /\ data'[v] = data[v] /\ idx'[v] = idx[v]
          /\ retval'[v] = retval[v] /\ commiters'[v] = commiters[v]
          /\ result'[v] = result[v] /\ sent'[v] = sent[v]
    /\ commiters_cache' = commiters_cache
    /\ UNCHANGED mainvars
    /\ loop' = loop
    /\ running' = "none"

TransportFailure ==
    [][\A w \in Workers :
          /\ (pc[w] = "get" /\ pc'[w] \notin {"get", "resp"}) =>
                /\ pc'[w] = "failed"
                /\ sent'[w] = sent[w]
                /\ nsleep'[w] = nsleep[w]
                /\ nerr'[w] = nerr[w]
                /\ result'[w] = NoResult
                /\ UnaffectedBy(w)
          /\ pc[w] = "failed" =>
                /\ pc'[w] = "failed"
                /\ sent'[w] = sent[w]
                /\ nsleep'[w] = nsleep[w]
                /\ result'[w] = NoResult
                /\ Len(sent[w]) = nsleep[w] + 1]_vars

TransportFailureWitness ==
    \E w \in Workers, v \in Workers :
        /\ w # v
        /\ pc[w] = "failed"
        /\ Kind(url[w]) = "profile"
        /\ Len(sent[w]) = 2 /\ nsleep[w] = 1
        /\ pc[v] = "done"
        /\ DOMAIN result[v].commiters # {}
        /\ mainpc = "wait"

\* C18: bound on redundant fetches.  No worker starts the fetch of a login
\* twice, so the fetches started for one login, over all workers, are at
\* most as many as there are workers.
RECURSIVE FetchesBy(_, _)
FetchesBy(S, l) ==
    IF S = {} THEN 0
    ELSE LET w == CHOOSE v \in S : TRUE IN fetches[w][l] + FetchesBy(S \ {w}, l)

FetchesOf(l) == FetchesBy(Workers, l)

Cached(l) == l \in DOMAIN commiters_cache /\ commiters_cache[l].login = l

ExportLookupDefined ==
    /\ \A w \in Workers :
          /\ \A i \in 1..Len(retval[w]) : Cached(retval[w][i])
          /\ \A l \in DOMAIN commiters[w] : Cached(l)
          /\ pc[w] = "done" => \A l \in DOMAIN result[w].commiters : Cached(l)
    /\ mainpc # "wait" =>
          /\ \A i \in 1..Len(exported) :
                /\ \A l \in DOMAIN exported[i].commiters : Cached(l)
                /\ Cardinality(csv[exported[i].name])
                      = Cardinality(DOMAIN exported[i].commiters)
          /\ mainpc = "crashed" => \E w \in finished : pc[w] = "failed"

ExportLookupDefinedWitness ==
    /\ mainpc = "done"
    /\ \E w \in Workers :
          /\ Summary(w).name \in DOMAIN csv
          /\ {r.login : r \in csv[Summary(w).name]} = Logins
          /\ fetches[w]["alice"] = 0
          /\ \E v \in Workers \ {w} : fetches[v]["alice"] = 1

\* C20: no sibling cancellation on failure.  While one worker has failed and
\* another has not ended, main() is still in asyncio.wait and is not about
\* to be resumed, and nothing has been exported; and a worker is failed only
\* with a request of its own left unanswered, never because a sibling failed.
NoSiblingCancellation ==
    \A w \in Workers :
        pc[w] = "failed" =>
            /\ Len(sent[w]) = nfail[w] + 1
            /\ (\E v \in Workers : pc[v] \notin {"done", "failed"}) =>
                  /\ mainpc = "wait"
                  /\ running # "main"
                  /\ "main" \notin batch
                  /\ finished = {}
                  /\ exported = <<>>
                  /\ DOMAIN csv = {}

NoSiblingCancellationWitness ==
    \E w \in Workers, v \in Workers :
        /\ pc[w] = "failed"
        /\ npages[w] = 0
        /\ pc[v] = "filter"
        /\ fetches[v]["bob"] = 1
        /\ loop = "running"
        /\ mainpc = "wait"

====
